---- MODULE Spec2Model ----
(***************************************************************************)
(* Model of the cognitive-reinforcement backend: the tables of db.py, the  *)
(* quiz and mastery logic of quiz.py and the request handlers of main.py.  *)
(*                                                                         *)
(* Representation choices                                                  *)
(*  - a table is the sequence of its rows in insertion order;              *)
(*  - a uuid is a pair <<tag, n>>, n the number of the row in its table,   *)
(*    so ids of different tables never collide;                            *)
(*  - a mastery score is an integer number of hundredths (0..100);         *)
(*  - a timestamp is an integer number of days;                            *)
(*  - a string is a sequence of one-character strings;                     *)
(*  - a quotient a / b of the code is the pair [num |-> a, den |-> b].     *)
(***************************************************************************)
EXTENDS Integers, Sequences, FiniteSets, TLC

\* ------------------------------------------------------------------------
\* Bounds of the model
\* ------------------------------------------------------------------------
MaxSessions == 2

MaxN == 2

MaxBatch == 2

MaxResponses == 2

MaxTime == 1

MaxStreak == 8

\* SQL NULL / Python None: an optional value is a sequence of at most one element
None == <<>>

Some(x) == <<x>>

\* ------------------------------------------------------------------------
\* Sequence helpers
\* ------------------------------------------------------------------------
Min(a, b) == IF a <= b THEN a ELSE b

Max(a, b) == IF a >= b THEN a ELSE b

\* Python's s[:n], also for n <= 0
Take(s, n) ==
    IF n >= 0 THEN SubSeq(s, 1, Min(n, Len(s)))
    ELSE SubSeq(s, 1, Max(Len(s) + n, 0))

\* .first() of a result set
First(rows) == IF Len(rows) = 0 THEN None ELSE Some(rows[1])

\* ------------------------------------------------------------------------
\* Strings
\* ------------------------------------------------------------------------
LowerChar(c) ==
    IF c = "A" THEN "a" ELSE IF c = "B" THEN "b" ELSE IF c = "N" THEN "n" ELSE c

\* str.lower()
Lower(s) == [i \in 1..Len(s) |-> LowerChar(s[i])]

RECURSIVE LStrip(_)
LStrip(s) == IF Len(s) > 0 /\ s[1] = " " THEN LStrip(Tail(s)) ELSE s

RECURSIVE RStrip(_)
RStrip(s) ==
    IF Len(s) > 0 /\ s[Len(s)] = " " THEN RStrip(SubSeq(s, 1, Len(s) - 1)) ELSE s

\* str.strip()
Strip(s) == RStrip(LStrip(s))

\* ------------------------------------------------------------------------
\* State
\* ------------------------------------------------------------------------
VARIABLES
    patients,         \* table patients
    family_members,   \* table family_members
    knowledge_items,  \* table knowledge_items
    quiz_sessions,    \* table quiz_sessions
    quiz_questions,   \* table quiz_questions
    quiz_responses,   \* table quiz_responses
    mastery,          \* table mastery
    now,              \* datetime.utcnow(), in days
    req,              \* the submit_quiz call of each worker thread
    last              \* outcome of the latest generate_quiz_questions call

vars == <<patients, family_members, knowledge_items, quiz_sessions, quiz_questions,
          quiz_responses, mastery, now, req, last>>

tables == <<patients, family_members, knowledge_items, quiz_sessions, quiz_questions,
            quiz_responses, mastery>>

\* worker threads that serve submit_quiz
Threads == {"t1", "t2"}

\* db._uuid
_uuid(tag, n) == <<tag, n>>

\* ------------------------------------------------------------------------
\* db.py: queries
\* ------------------------------------------------------------------------
get_patient(patient_id) ==
    First(SelectSeq(patients, LAMBDA r : r.id = patient_id))

list_family_members(patient_id) ==
    SelectSeq(family_members, LAMBDA r : r.patient_id = patient_id)

\* category is always None in the callers modelled here
list_knowledge_items(patient_id) ==
    SelectSeq(knowledge_items, LAMBDA r : r.patient_id = patient_id)

get_session(session_id) ==
    First(SelectSeq(quiz_sessions, LAMBDA r : r.id = session_id))

list_questions(session_id) ==
    SelectSeq(quiz_questions, LAMBDA r : r.session_id = session_id)

_get_mastery_row(patient_id, item_type, item_id) ==
    First(SelectSeq(mastery, LAMBDA r : /\ r.patient_id = patient_id
                                        /\ r.item_type = item_type
                                        /\ r.item_id = item_id))

\* ------------------------------------------------------------------------
\* quiz.py: scheduler
\* ------------------------------------------------------------------------
FastMs == 3000

ScoreMax == 100

StepCorrect == 10

StepFast == 5

StepIncorrect == 5

_interval_days(score) ==
    IF score >= 80 THEN 14
    ELSE IF score >= 60 THEN 7
    ELSE IF score >= 40 THEN 4
    ELSE IF score >= 20 THEN 2
    ELSE 1

\* "not item_type or not item_id": a missing item_type is "", a missing item_id is None
NoItem(payload) == payload.item_type = "" \/ payload.item_id = None

\* the part of compute_mastery_update after the read of the existing row
mastery_values_no_clamp(existing, correct, response_time_ms) ==
    LET score0 == IF existing # None THEN existing[1].mastery_score ELSE 0
        cc0 == IF existing # None THEN existing[1].consecutive_correct ELSE 0
        ci0 == IF existing # None THEN existing[1].consecutive_incorrect ELSE 0
    IN  IF correct
        THEN [mastery_score |-> IF response_time_ms < FastMs
                                THEN score0 + StepCorrect + StepFast
                                ELSE score0 + StepCorrect,
              consecutive_correct |-> cc0 + 1,
              consecutive_incorrect |-> 0]
        ELSE [mastery_score |-> score0 - StepIncorrect,
              consecutive_correct |-> 0,
              consecutive_incorrect |-> ci0 + 1]

mastery_values_streak_restart(existing, correct, response_time_ms) ==
    LET score0 == IF existing # None THEN existing[1].mastery_score ELSE 0
    IN  IF correct
        THEN [mastery_score |->
                  LET s1 == Min(ScoreMax, score0 + StepCorrect)
                  IN  IF response_time_ms < FastMs THEN Min(ScoreMax, s1 + StepFast) ELSE s1,
              consecutive_correct |-> 1,
              consecutive_incorrect |-> 0]
        ELSE [mastery_score |-> Max(0, score0 - StepIncorrect),
              consecutive_correct |-> 0,
              consecutive_incorrect |-> 1]

mastery_values_no_reset(existing, correct, response_time_ms) ==
    LET score0 == IF existing # None THEN existing[1].mastery_score ELSE 0
        cc0 == IF existing # None THEN existing[1].consecutive_correct ELSE 0
        ci0 == IF existing # None THEN existing[1].consecutive_incorrect ELSE 0
    IN  IF correct
        THEN [mastery_score |->
                  LET s1 == Min(ScoreMax, score0 + StepCorrect)
                  IN  IF response_time_ms < FastMs THEN Min(ScoreMax, s1 + StepFast) ELSE s1,
              consecutive_correct |-> cc0 + 1,
              consecutive_incorrect |-> ci0]
        ELSE [mastery_score |-> Max(0, score0 - StepIncorrect),
              consecutive_correct |-> cc0,
              consecutive_incorrect |-> ci0 + 1]

mastery_values(existing, correct, response_time_ms) ==
    LET score0 == IF existing # None THEN existing[1].mastery_score ELSE 0
        cc0 == IF existing # None THEN existing[1].consecutive_correct ELSE 0
        ci0 == IF existing # None THEN existing[1].consecutive_incorrect ELSE 0
    IN  IF correct
        THEN [mastery_score |->
                  LET s1 == Min(ScoreMax, score0 + StepCorrect)
                  IN  IF response_time_ms < FastMs THEN Min(ScoreMax, s1 + StepFast) ELSE s1,
              consecutive_correct |-> cc0 + 1,
              consecutive_incorrect |-> 0]
        ELSE [mastery_score |-> Max(0, score0 - StepIncorrect),
              consecutive_correct |-> 0,
              consecutive_incorrect |-> ci0 + 1]

compute_mastery_update_old_score(patient_id, payload, correct, response_time_ms) ==
    IF NoItem(payload)
    THEN None
    ELSE LET existing == _get_mastery_row(patient_id, payload.item_type, payload.item_id)
             v == mastery_values(existing, correct, response_time_ms)
             days == _interval_days(IF existing # None THEN existing[1].mastery_score ELSE 0)
         IN  Some([patient_id |-> patient_id,
                   item_type |-> payload.item_type,
                   item_id |-> payload.item_id,
                   mastery_score |-> v.mastery_score,
                   consecutive_correct |-> v.consecutive_correct,
                   consecutive_incorrect |-> v.consecutive_incorrect,
                   last_seen_at |-> Some(now),
                   next_due_at |-> Some(now + days)])

\* compute_mastery_update: None when the payload names no item, else the
\* values to store, computed from the row read now
compute_mastery_update(patient_id, payload, correct, response_time_ms) ==
    IF NoItem(payload)
    THEN None
    ELSE LET existing == _get_mastery_row(patient_id, payload.item_type, payload.item_id)
             v == mastery_values(existing, correct, response_time_ms)
             days == _interval_days(v.mastery_score)
         IN  Some([patient_id |-> patient_id,
                   item_type |-> payload.item_type,
                   item_id |-> payload.item_id,
                   mastery_score |-> v.mastery_score,
                   consecutive_correct |-> v.consecutive_correct,
                   consecutive_incorrect |-> v.consecutive_incorrect,
                   last_seen_at |-> Some(now),
                   next_due_at |-> Some(now + days)])

\* the write of update_mastery, given the row its own read returned
mastery_written(existing, payload) ==
    LET values(id) == [id |-> id,
                       patient_id |-> payload.patient_id,
                       item_type |-> payload.item_type,
                       item_id |-> payload.item_id,
                       mastery_score |-> payload.mastery_score,
                       consecutive_correct |-> payload.consecutive_correct,
                       consecutive_incorrect |-> payload.consecutive_incorrect,
                       last_seen_at |-> payload.last_seen_at,
                       next_due_at |-> payload.next_due_at]
    IN  IF existing # None
        THEN [i \in 1..Len(mastery) |->
                 IF mastery[i].id = existing[1].id THEN values(existing[1].id) ELSE mastery[i]]
        ELSE Append(mastery, values(_uuid("m", Len(mastery) + 1)))

\* update_mastery run without interruption
update_mastery(payload) ==
    mastery_written(
        _get_mastery_row(payload.patient_id, payload.item_type, payload.item_id), payload)

\* ------------------------------------------------------------------------
\* quiz.py: answer evaluation
\* ------------------------------------------------------------------------
\* str(v) of an optional string: str(None) is "None"
Str(v) == IF v = None THEN <<"N", "o", "n", "e">> ELSE v[1]

evaluate_answer_any_type(question_type, correct_answer, user_answer, acceptable_answers) ==
    LET ua == Lower(Strip(Str(user_answer)))
    IN  \/ Lower(Strip(Str(correct_answer))) = ua
        \/ \E i \in 1..Len(acceptable_answers) : Lower(acceptable_answers[i]) = ua

\* correct_answer and user_answer are optional strings, acceptable_answers a
\* list of strings
evaluate_answer(question_type, correct_answer, user_answer, acceptable_answers) ==
    IF question_type = "recall"
    THEN LET ua == Lower(Strip(Str(user_answer)))
         IN  \/ Lower(Strip(Str(correct_answer))) = ua
             \/ \E i \in 1..Len(acceptable_answers) : Lower(acceptable_answers[i]) = ua
    ELSE Lower(Strip(Str(user_answer))) = Lower(Strip(Str(correct_answer)))

\* ------------------------------------------------------------------------
\* db.py: due_items
\* ------------------------------------------------------------------------
\* the entry appended for a catalog row
catalog_entry(item_type, row) ==
    IF item_type = "family"
    THEN [item_type |-> "family", item_id |-> row.id,
          next_due_at |-> None, last_seen_at |-> None]
    ELSE [item_type |-> "knowledge", item_id |-> row.id,
          sensitivity_level |-> row.sensitivity_level,
          next_due_at |-> None, last_seen_at |-> None]

RECURSIVE due_append_front(_, _, _, _)
due_append_front(rows, item_type, due_list, known_ids) ==
    IF Len(rows) = 0
    THEN [due_list |-> due_list, known_ids |-> known_ids]
    ELSE IF Head(rows).id \notin known_ids
         THEN due_append_front(Tail(rows), item_type,
                               <<catalog_entry(item_type, Head(rows))>> \o due_list,
                               known_ids \cup {Head(rows).id})
         ELSE due_append_front(Tail(rows), item_type, due_list, known_ids)

\* one of the two loops over family_rows and knowledge_rows
RECURSIVE due_append(_, _, _, _)
due_append(rows, item_type, due_list, known_ids) ==
    IF Len(rows) = 0
    THEN [due_list |-> due_list, known_ids |-> known_ids]
    ELSE IF Head(rows).id \notin known_ids
         THEN due_append(Tail(rows), item_type,
                         Append(due_list, catalog_entry(item_type, Head(rows))),
                         known_ids \cup {Head(rows).id})
         ELSE due_append(Tail(rows), item_type, due_list, known_ids)

due_items(patient_id) ==
    LET due_list == SelectSeq(mastery, LAMBDA r :
                        /\ r.patient_id = patient_id
                        /\ (r.next_due_at = None \/ r.next_due_at[1] <= now))
        known_ids == {due_list[i].item_id : i \in 1..Len(due_list)}
        family_rows == list_family_members(patient_id)
        knowledge_rows == list_knowledge_items(patient_id)
        after_family == due_append(family_rows, "family", due_list, known_ids)
        after_knowledge == due_append(knowledge_rows, "knowledge",
                                      after_family.due_list, after_family.known_ids)
    IN  after_knowledge.due_list

\* ------------------------------------------------------------------------
\* quiz.py: quiz assembly
\* ------------------------------------------------------------------------
\* item.get("value") or item.get("full_name")
value_or_name(item) ==
    IF "value" \in DOMAIN item /\ item.value # <<>> THEN Some(item.value)
    ELSE IF "full_name" \in DOMAIN item /\ item.full_name # <<>> THEN Some(item.full_name)
    ELSE None

\* the draft _fallback_questions builds for one item (prompt and options carry
\* the same label and value and are left out)
fallback_draft(item) ==
    [question_type |-> "mcq",
     correct_answer |-> value_or_name(item),
     item_type |-> IF "label" \in DOMAIN item THEN "knowledge" ELSE "family",
     item_id |-> item.id,
     difficulty |-> 1,
     acceptable_answers |-> <<>>]

_fallback_questions(knowledge, family, n) ==
    LET items == Take(knowledge \o family, n)
    IN  [i \in 1..Len(items) |-> fallback_draft(items[i])]

\* dict.get of {row["id"]: row for row in rows}
lookup(rows, id) ==
    LET hits == SelectSeq(rows, LAMBDA r : r.id = id)
    IN  IF Len(hits) = 0 THEN None ELSE Some(hits[Len(hits)])

\* "prioritize due items"
RECURSIVE select_due(_, _, _, _, _)
select_due(due, knowledge, family, selected, seen) ==
    IF Len(due) = 0
    THEN [selected |-> selected, seen |-> seen]
    ELSE LET d == Head(due)
             item == IF d.item_type = "knowledge" THEN lookup(knowledge, d.item_id)
                     ELSE IF d.item_type = "family" THEN lookup(family, d.item_id)
                     ELSE None
         IN  IF item # None /\ item[1].id \notin seen
             THEN select_due(Tail(due), knowledge, family,
                             Append(selected, item[1]), seen \cup {item[1].id})
             ELSE select_due(Tail(due), knowledge, family, selected, seen)

\* "fill remaining slots": the length test runs only after an append
RECURSIVE fill_slots(_, _, _, _)
fill_slots(items, selected, seen, n) ==
    IF Len(items) = 0
    THEN selected
    ELSE IF Head(items).id \in seen
         THEN fill_slots(Tail(items), selected, seen, n)
         ELSE IF Len(selected) + 1 >= n
              THEN Append(selected, Head(items))
              ELSE fill_slots(Tail(items), Append(selected, Head(items)),
                              seen \cup {Head(items).id}, n)

sensitive_filtered(knowledge, include_sensitive) ==
    SelectSeq(knowledge, LAMBDA ki : include_sensitive \/ ki.sensitivity_level < 2)

items_pool(family, knowledge, due, n, include_sensitive) ==
    LET filtered == sensitive_filtered(knowledge, include_sensitive)
        prio == select_due(due, filtered, family, <<>>, {})
    IN  Take(fill_slots(filtered \o family, prio.selected, prio.seen, n), n)

\* What the generator call produced:
\*   "unconfigured"    _client() is None or no deployment is named
\*   "transport_error" client.chat.completions.create raised OpenAIError
\*   "not_json"        the content is not JSON (json.loads raises JSONDecodeError)
\*   "not_object"      the content is JSON but no object: data.get is an AttributeError
\*   "no_questions"    the content is an object without the key "questions"
\*   "questions_null"  the content is an object whose "questions" is null
\*   "ok"              the content is an object whose "questions" is gen.questions
\* The result is [raised, ret]: ret is the optional returned value.
generate_quiz_questions(family, knowledge, due, n, include_sensitive, gen) ==
    LET pool == items_pool(family, knowledge, due, n, include_sensitive)
    IN  IF gen.kind \in {"unconfigured", "transport_error", "not_json"}
        THEN [raised |-> FALSE, ret |-> Some(_fallback_questions(pool, <<>>, n))]
        ELSE IF gen.kind = "not_object"
        THEN [raised |-> TRUE, ret |-> None]
        ELSE IF gen.kind = "no_questions"
        THEN [raised |-> FALSE, ret |-> Some(<<>>)]
        ELSE IF gen.kind = "questions_null"
        THEN [raised |-> FALSE, ret |-> None]
        ELSE [raised |-> FALSE, ret |-> Some(gen.questions)]

\* ------------------------------------------------------------------------
\* Request inputs
\* ------------------------------------------------------------------------
NameInput == <<"b">>

ValueInput == <<"a">>

LabelInput == <<"c">>

\* a fast answer that is ValueInput once trimmed and lower-cased, and a slow
\* one that is NameInput: each is right for one kind of item and wrong for the
\* other
AnswerInputs ==
    {[user_answer |-> Some(<<"A", " ">>), response_time_ms |-> 1000],
     [user_answer |-> Some(<<"b">>), response_time_ms |-> 3000]}

PatientIdInputs == {_uuid("p", k) : k \in 0..Len(patients)}

SessionIdInputs == {_uuid("s", k) : k \in 0..Len(quiz_sessions)}

QuestionIdInputs == {_uuid("q", k) : k \in 0..Len(quiz_questions)}

SubmitItems ==
    {[question_id |-> q, user_answer |-> a.user_answer,
      response_time_ms |-> a.response_time_ms] : q \in QuestionIdInputs, a \in AnswerInputs}

SeqsUpTo(S, n) == UNION {[1..k -> S] : k \in 0..n}

\* a recall draft per item, as a well-behaved generator writes it
recall_draft(item) ==
    [question_type |-> "recall",
     correct_answer |-> value_or_name(item),
     item_type |-> IF "label" \in DOMAIN item THEN "knowledge" ELSE "family",
     item_id |-> item.id,
     difficulty |-> 1,
     acceptable_answers |-> <<Str(value_or_name(item))>>]

GenFailureKinds ==
    {"transport_error", "not_json", "not_object", "no_questions", "questions_null"}

\* ------------------------------------------------------------------------
\* Initial state: the catalog of two registered patients, no quiz yet
\* ------------------------------------------------------------------------
IdleReq ==
    [pc |-> "idle", status |-> 0, session_id |-> None, patient_id |-> None,
     qmap |-> <<>>, submissions |-> <<>>, idx |-> 0, correct_count |-> 0,
     total_time |-> 0, is_correct |-> FALSE, results |-> <<>>,
     mastery_update |-> None, existing |-> None, response |-> None,
     before |-> [quiz_responses |-> <<>>, mastery |-> <<>>, quiz_sessions |-> <<>>]]

NoCall == [called |-> FALSE]

\* the row create_patient inserts
patient_row(k) == [id |-> _uuid("p", k), full_name |-> NameInput]

\* the row add_family_member inserts
family_row(k, patient_id) ==
    [id |-> _uuid("f", k), patient_id |-> patient_id, full_name |-> NameInput]

\* the row add_knowledge_item inserts
knowledge_row(k, patient_id, sensitivity_level) ==
    [id |-> _uuid("k", k), patient_id |-> patient_id, label |-> LabelInput,
     value |-> ValueInput, sensitivity_level |-> sensitivity_level]

\* The catalog is the one these calls leave: create_patient twice, then for the
\* first patient add_knowledge_item (sensitivity 0 and 2) and add_family_member,
\* and add_knowledge_item for the second patient.
Init ==
    /\ patients = <<patient_row(1), patient_row(2)>>
    /\ family_members = <<family_row(1, _uuid("p", 1))>>
    /\ knowledge_items = <<knowledge_row(1, _uuid("p", 1), 0),
                           knowledge_row(2, _uuid("p", 1), 2),
                           knowledge_row(3, _uuid("p", 2), 0)>>
    /\ quiz_sessions = <<>>
    /\ quiz_questions = <<>>
    /\ quiz_responses = <<>>
    /\ mastery = <<>>
    /\ now = 0
    /\ req = [t \in Threads |-> IdleReq]
    /\ last = NoCall

Quiescent == \A t \in Threads : req[t].pc \in {"idle", "returned"}

\* ------------------------------------------------------------------------
\* main.py: generate_quiz
\* ------------------------------------------------------------------------
create_session(patient_id, total_questions, status) ==
    Append(quiz_sessions, [id |-> _uuid("s", Len(quiz_sessions) + 1),
                           patient_id |-> patient_id,
                           status |-> status,
                           total_questions |-> total_questions,
                           score |-> None,
                           avg_response_time_ms |-> None])

\* the add_question calls of the loop over the drafts
add_questions(session_id, questions) ==
    quiz_questions \o
        [i \in 1..Len(questions) |->
            [id |-> _uuid("q", Len(quiz_questions) + i),
             session_id |-> session_id,
             question_type |-> questions[i].question_type,
             payload |-> questions[i]]]

generate_quiz(patient_id, n, include_sensitive, gen) ==
    LET family == list_family_members(patient_id)
        knowledge == list_knowledge_items(patient_id)
        due == due_items(patient_id)
        res == generate_quiz_questions(family, knowledge, due, n, include_sensitive, gen)
    IN  /\ Len(quiz_sessions) < MaxSessions
        /\ IF get_patient(patient_id) = None \/ res.raised \/ res.ret = None
           THEN UNCHANGED <<quiz_sessions, quiz_questions>>
           ELSE /\ quiz_sessions' = create_session(patient_id, Len(res.ret[1]), "active")
                /\ quiz_questions' =
                       add_questions(_uuid("s", Len(quiz_sessions) + 1), res.ret[1])
        /\ UNCHANGED <<patients, family_members, knowledge_items, quiz_responses,
                       mastery, now, req, last>>

\* ------------------------------------------------------------------------
\* main.py: submit_quiz, one step per database transaction
\* ------------------------------------------------------------------------
\* responses that requests in progress may still add
Reserved ==
    LET left(t) == IF req[t].pc \in {"idle", "returned"} THEN 0
                   ELSE Len(req[t].submissions)
    IN  left("t1") + left("t2")

\* responses that a new request may add
Capacity == MaxResponses - Len(quiz_responses) - Reserved

\* the call returns: its locals are gone, the caller holds the status code and,
\* for 200, the QuizSubmitResponse
Returned(r, status, response) ==
    [IdleReq EXCEPT !.pc = "returned", !.status = status, !.response = response,
                    !.session_id = r.session_id, !.before = r.before]

\* lines 283-291: the session and its questions are read; 404 without a session
submit_begin(t, session_id, submissions) ==
    LET session == get_session(session_id)
        started == [IdleReq EXCEPT
                       !.session_id = session_id,
                       !.submissions = submissions,
                       !.before = [quiz_responses |-> quiz_responses,
                                   mastery |-> mastery,
                                   quiz_sessions |-> quiz_sessions]]
    IN  /\ req[t].pc \in {"idle", "returned"}
        /\ Len(submissions) <= Capacity
        /\ req' = [req EXCEPT ![t] =
                      IF session = None
                      THEN Returned(started, 404, None)
                      ELSE [started EXCEPT !.pc = "loop",
                                           !.idx = 1,
                                           !.patient_id = session[1].patient_id,
                                           !.qmap = list_questions(session_id)]]
        /\ UNCHANGED <<tables, now, last>>

add_response(session_id, question_id, user_answer, correct, response_time_ms) ==
    Append(quiz_responses, [id |-> _uuid("r", Len(quiz_responses) + 1),
                            session_id |-> session_id,
                            question_id |-> question_id,
                            user_answer_json |-> user_answer,
                            correct |-> correct,
                            response_time_ms |-> response_time_ms])

submit_item_completing(t) ==
    LET r == req[t]
        item == r.submissions[r.idx]
        question == lookup(r.qmap, item.question_id)
        payload == question[1].payload
        is_correct == evaluate_answer(payload.question_type, payload.correct_answer,
                                      item.user_answer, payload.acceptable_answers)
    IN  /\ r.pc = "loop"
        /\ r.idx <= Len(r.submissions)
        /\ IF question = None
           THEN /\ req' = [req EXCEPT ![t] = Returned(r, 400, None)]
                /\ quiz_sessions' =
                       [i \in 1..Len(quiz_sessions) |->
                           IF quiz_sessions[i].id = r.session_id
                           THEN [quiz_sessions[i] EXCEPT !.status = "completed"]
                           ELSE quiz_sessions[i]]
                /\ UNCHANGED quiz_responses
           ELSE /\ quiz_responses' =
                       add_response(r.session_id, item.question_id, item.user_answer,
                                    is_correct, item.response_time_ms)
                /\ req' = [req EXCEPT ![t] =
                              [r EXCEPT !.pc = "compute",
                                        !.is_correct = is_correct,
                                        !.correct_count = IF is_correct THEN @ + 1 ELSE @,
                                        !.total_time = @ + item.response_time_ms]]
                /\ UNCHANGED quiz_sessions
        /\ UNCHANGED <<patients, family_members, knowledge_items,
                       quiz_questions, mastery, now, last>>

\* lines 293-312: the next item is looked up (400 when it is not a question of
\* the session), evaluated and its response row is added
submit_item(t) ==
    LET r == req[t]
        item == r.submissions[r.idx]
        question == lookup(r.qmap, item.question_id)
        payload == question[1].payload
        is_correct == evaluate_answer(payload.question_type, payload.correct_answer,
                                      item.user_answer, payload.acceptable_answers)
    IN  /\ r.pc = "loop"
        /\ r.idx <= Len(r.submissions)
        /\ IF question = None
           THEN /\ req' = [req EXCEPT ![t] = Returned(r, 400, None)]
                /\ UNCHANGED quiz_responses
           ELSE /\ quiz_responses' =
                       add_response(r.session_id, item.question_id, item.user_answer,
                                    is_correct, item.response_time_ms)
                /\ req' = [req EXCEPT ![t] =
                              [r EXCEPT !.pc = "compute",
                                        !.is_correct = is_correct,
                                        !.correct_count = IF is_correct THEN @ + 1 ELSE @,
                                        !.total_time = @ + item.response_time_ms]]
        /\ UNCHANGED <<patients, family_members, knowledge_items, quiz_sessions,
                       quiz_questions, mastery, now, last>>

\* line 322 and the end of the loop body
NextItem(r) ==
    [r EXCEPT !.pc = "loop",
              !.idx = @ + 1,
              !.mastery_update = None,
              !.existing = None,
              !.results = Append(@, [question_id |-> r.submissions[r.idx].question_id,
                                     correct |-> r.is_correct])]

\* lines 313-320: compute_mastery_update reads the mastery row and computes
submit_compute(t) ==
    LET r == req[t]
        item == r.submissions[r.idx]
        payload == lookup(r.qmap, item.question_id)[1].payload
        mastery_update == compute_mastery_update(r.patient_id, payload, r.is_correct,
                                                 item.response_time_ms)
    IN  /\ r.pc = "compute"
        /\ req' = [req EXCEPT ![t] =
                      IF mastery_update = None
                      THEN NextItem(r)
                      ELSE [r EXCEPT !.pc = "update_read",
                                     !.mastery_update = mastery_update]]
        /\ UNCHANGED <<tables, now, last>>

\* db.py lines 352-354: update_mastery reads the row again
submit_update_read(t) ==
    LET r == req[t]
        payload == r.mastery_update[1]
    IN  /\ r.pc = "update_read"
        /\ req' = [req EXCEPT ![t] =
                      [r EXCEPT !.pc = "update_write",
                                !.existing = _get_mastery_row(payload.patient_id,
                                                 payload.item_type, payload.item_id)]]
        /\ UNCHANGED <<tables, now, last>>

\* db.py lines 366-375: update_mastery updates the row it read, or inserts
submit_update_write(t) ==
    LET r == req[t]
    IN  /\ r.pc = "update_write"
        /\ mastery' = mastery_written(r.existing, r.mastery_update[1])
        /\ req' = [req EXCEPT ![t] = NextItem(r)]
        /\ UNCHANGED <<patients, family_members, knowledge_items, quiz_sessions,
                       quiz_questions, quiz_responses, now, last>>

complete_session_status_only(session_id, score, avg_response_time_ms) ==
    [i \in 1..Len(quiz_sessions) |->
        IF quiz_sessions[i].id = session_id
        THEN [quiz_sessions[i] EXCEPT !.status = "completed"]
        ELSE quiz_sessions[i]]

complete_session_score_only(session_id, score, avg_response_time_ms) ==
    [i \in 1..Len(quiz_sessions) |->
        IF quiz_sessions[i].id = session_id
        THEN [quiz_sessions[i] EXCEPT !.status = "completed",
                                      !.score = Some(score),
                                      !.avg_response_time_ms =
                                          IF @ = None THEN Some(avg_response_time_ms) ELSE @]
        ELSE quiz_sessions[i]]

complete_session(session_id, score, avg_response_time_ms) ==
    [i \in 1..Len(quiz_sessions) |->
        IF quiz_sessions[i].id = session_id
        THEN [quiz_sessions[i] EXCEPT !.status = "completed",
                                      !.score = Some(score),
                                      !.avg_response_time_ms = Some(avg_response_time_ms)]
        ELSE quiz_sessions[i]]

\* lines 323-336: the session is completed with the aggregate score
submit_complete(t) ==
    LET r == req[t]
        score == [num |-> r.correct_count, den |-> Max(Len(r.submissions), 1)]
        avg_time == [num |-> r.total_time, den |-> Max(Len(r.submissions), 1)]
        failed == SelectSeq(r.results, LAMBDA x : ~x.correct)
        weak_items == [i \in 1..Len(failed) |-> failed[i].question_id]
    IN  /\ r.pc = "loop"
        /\ r.idx > Len(r.submissions)
        /\ quiz_sessions' = complete_session(r.session_id, score, avg_time)
        /\ req' = [req EXCEPT ![t] = Returned(r, 200, Some(
                      [session_id |-> r.session_id,
                       score |-> score,
                       total_questions |-> Len(r.submissions),
                       correct |-> r.correct_count,
                       avg_response_time_ms |-> avg_time,
                       weak_items |-> weak_items]))]
        /\ UNCHANGED <<patients, family_members, knowledge_items, quiz_questions,
                       quiz_responses, mastery, now, last>>

\* time passes
Tick ==
    /\ now < MaxTime
    /\ now' = now + 1
    /\ UNCHANGED <<tables, req, last>>

\* ------------------------------------------------------------------------
\* Specifications
\* ------------------------------------------------------------------------
GenInputs(patient_id, n, include_sensitive) ==
    LET family == list_family_members(patient_id)
        knowledge == list_knowledge_items(patient_id)
        pool == items_pool(family, knowledge, due_items(patient_id), n, include_sensitive)
    IN  {[kind |-> "unconfigured", questions |-> <<>>],
         [kind |-> "not_object", questions |-> <<>>],
         [kind |-> "ok", questions |-> [i \in 1..Len(pool) |-> recall_draft(pool[i])]]}

Handlers ==
    \E patient_id \in PatientIdInputs, n \in 1..MaxN, include_sensitive \in BOOLEAN :
        \E gen \in GenInputs(patient_id, n, include_sensitive) :
            generate_quiz(patient_id, n, include_sensitive, gen)

SubmitSteps(t) ==
    \/ submit_item(t)
    \/ submit_compute(t)
    \/ submit_update_read(t)
    \/ submit_update_write(t)
    \/ submit_complete(t)

\* requests are served one at a time by one thread
Next ==
    \/ Quiescent /\ Handlers
    \/ Quiescent /\ \E session_id \in SessionIdInputs :
           \E submissions \in SeqsUpTo(SubmitItems, Min(MaxBatch, Capacity)) :
               submit_begin("t1", session_id, submissions)
    \/ SubmitSteps("t1")
    \/ Quiescent /\ Tick

Spec == Init /\ [][Next]_vars

\* ------------------------------------------------------------------------
\* Concurrent submissions: two worker threads serve the calls for one session,
\* their steps interleaved
\* ------------------------------------------------------------------------
NextConc ==
    \/ Len(quiz_sessions) = 0 /\ Handlers
    \/ \E t \in Threads, session_id \in SessionIdInputs :
           \E submissions \in SeqsUpTo(SubmitItems, Min(MaxBatch, Capacity)) :
               submit_begin(t, session_id, submissions)
    \/ \E t \in Threads : SubmitSteps(t)

SpecConc == Init /\ [][NextConc]_vars

\* ------------------------------------------------------------------------
\* The scheduler alone: answers to questions about one item, one after another
\* ------------------------------------------------------------------------
SchedPatient == _uuid("p", 1)

SchedPayload == fallback_draft(knowledge_row(1, SchedPatient, 0))

\* main.py lines 313-321 for one answer
scheduler_update(correct, response_time_ms) ==
    LET existing == _get_mastery_row(SchedPatient, SchedPayload.item_type,
                                     SchedPayload.item_id)
        mastery_update == compute_mastery_update(SchedPatient, SchedPayload, correct,
                                                 response_time_ms)
    IN  /\ existing # None =>
               /\ existing[1].consecutive_correct < MaxStreak
               /\ existing[1].consecutive_incorrect < MaxStreak
        /\ mastery' = IF mastery_update = None THEN mastery
                      ELSE update_mastery(mastery_update[1])
        /\ UNCHANGED <<patients, family_members, knowledge_items, quiz_sessions,
                       quiz_questions, quiz_responses, now, req, last>>

ResponseTimeInputs == {1000, 2999, 3000}

NextSched ==
    \/ \E correct \in BOOLEAN, response_time_ms \in ResponseTimeInputs :
           scheduler_update(correct, response_time_ms)
    \/ Tick

SpecSched == Init /\ [][NextSched]_vars

\* ------------------------------------------------------------------------
\* Quiz assembly alone: generate_quiz_questions applied to bounded inputs
\* ------------------------------------------------------------------------
MaxItems == 2

MaxDue == 2

AssemblyPatient == _uuid("p", 1)

KnowledgeInputs ==
    UNION {{[i \in 1..k |-> knowledge_row(i, AssemblyPatient, level[i])] :
               level \in [1..k -> {0, 2}]} : k \in 0..MaxItems}

FamilyInputs == {[i \in 1..k |-> family_row(i, AssemblyPatient)] : k \in 0..1}

\* due entries for the catalog rows, for a knowledge row that is not in the
\* catalog, and for a family member that may not be in it
DueEntryInputs(knowledge) ==
    {catalog_entry("knowledge", knowledge[i]) : i \in 1..Len(knowledge)}
    \cup {catalog_entry("knowledge", knowledge_row(MaxItems + 1, AssemblyPatient, 0)),
          catalog_entry("family", family_row(1, AssemblyPatient))}

GeneratorInputs(family, knowledge) ==
    {[kind |-> k, questions |-> <<>>] : k \in GenFailureKinds \cup {"unconfigured"}}
    \cup {[kind |-> "ok",
           questions |-> [i \in 1..k |-> recall_draft((knowledge \o family)[i])]] :
             k \in 0..Len(knowledge \o family)}

InitAssembly ==
    /\ patients = <<patient_row(1)>>
    /\ family_members \in FamilyInputs
    /\ knowledge_items \in KnowledgeInputs
    /\ quiz_sessions = <<>>
    /\ quiz_questions = <<>>
    /\ quiz_responses = <<>>
    /\ mastery = <<>>
    /\ now = 0
    /\ req = [t \in Threads |-> IdleReq]
    /\ last = NoCall

\* one call of generate_quiz_questions; its arguments and result are kept
assemble(due, n, include_sensitive, gen) ==
    /\ ~last.called
    /\ last' = [called |-> TRUE, due |-> due, n |-> n,
                include_sensitive |-> include_sensitive, gen |-> gen,
                result |-> generate_quiz_questions(family_members, knowledge_items,
                                                   due, n, include_sensitive, gen)]
    /\ UNCHANGED <<tables, now, req>>

NextAssembly ==
    \E due \in SeqsUpTo(DueEntryInputs(knowledge_items), MaxDue), n \in (-1)..MaxN,
       include_sensitive \in BOOLEAN :
        \E gen \in GeneratorInputs(family_members, knowledge_items) :
            assemble(due, n, include_sensitive, gen)

SpecAssembly == InitAssembly /\ [][NextAssembly]_vars

\* ------------------------------------------------------------------------
\* Answer evaluation alone: evaluate_answer applied to bounded inputs
\* ------------------------------------------------------------------------
MaxStrLen == 2

StringInputs == SeqsUpTo({"a", "A", " "}, MaxStrLen)

\* the list is empty, holds one string, or holds an entry that matches nothing
\* here followed by one string
AcceptableInputs ==
    {<<>>} \cup {<<s>> : s \in StringInputs} \cup {<<<<"b">>, s>> : s \in StringInputs}

\* the canonical answer is a string or null (no value and no name)
CanonicalInputs == {None} \cup {Some(s) : s \in StringInputs}

QuestionTypeInputs == {"recall", "mcq", "true_false"}

\* one call of evaluate_answer; its arguments and result are kept
evaluate(question_type, correct_answer, user_answer, acceptable_answers) ==
    /\ ~last.called
    /\ last' = [called |-> TRUE, question_type |-> question_type,
                correct_answer |-> correct_answer, user_answer |-> user_answer,
                acceptable_answers |-> acceptable_answers,
                result |-> evaluate_answer(question_type, correct_answer, user_answer,
                                           acceptable_answers)]
    /\ UNCHANGED <<tables, now, req>>

NextEval ==
    \E question_type \in QuestionTypeInputs, correct_answer \in CanonicalInputs,
       user_answer \in StringInputs, acceptable_answers \in AcceptableInputs :
        evaluate(question_type, correct_answer, Some(user_answer), acceptable_answers)

SpecEval == Init /\ [][NextEval]_vars

\* the handlers run on worker threads that are all scheduled: a request that
\* can take a step takes one
SpecConcFair == SpecConc /\ \A t \in Threads : WF_vars(SubmitSteps(t))

\* ------------------------------------------------------------------------
\* Claims
\* ------------------------------------------------------------------------
Rejected(t) == req[t].pc = "returned" /\ req[t].status \in {400, 404}

SameItem(a, b) ==
    a.patient_id = b.patient_id /\ a.item_type = b.item_type /\ a.item_id = b.item_id

\* C1: when submit_quiz rejects a batch of an existing session because of a
\* question id that is not the session's (status 400), the stored responses
\* are the ones stored before the call.
C1_RejectedBatchStoresNoResponse ==
    \A t \in Threads :
        (req[t].pc = "returned" /\ req[t].status = 400)
            => quiz_responses = req[t].before.quiz_responses

\* C2: when submit_quiz rejects a request (unknown session, 404, or unknown
\* question id, 400), the mastery table is the one before the call: no record
\* changed, none created.
C2_RejectedRequestLeavesMastery ==
    \A t \in Threads : Rejected(t) => mastery = req[t].before.mastery

\* C3: an item whose mastery record of a patient has its next-due timestamp
\* strictly after now is in no entry of due_items for that patient.
C3_FutureDueNotListed ==
    \A p \in 1..Len(patients) : \A m \in 1..Len(mastery) :
        LET due == due_items(patients[p].id)
            row == mastery[m]
        IN  (/\ row.patient_id = patients[p].id
             /\ row.next_due_at # None
             /\ row.next_due_at[1] > now)
            => \A i \in 1..Len(due) :
                   ~(due[i].item_type = row.item_type /\ due[i].item_id = row.item_id)

\* C4: when the configured generator fails or its output is no well-formed
\* question list, generate_quiz_questions raises nothing and returns the
\* fallback drafts of the selected items (non-empty when an item is eligible
\* and n >= 1).
C4_GeneratorFailureFallsBack ==
    (last.called /\ last.gen.kind \in GenFailureKinds) =>
        LET pool == items_pool(family_members, knowledge_items, last.due, last.n,
                               last.include_sensitive)
            eligible == sensitive_filtered(knowledge_items, last.include_sensitive)
                            \o family_members
        IN  /\ ~last.result.raised
            /\ last.result.ret = Some([i \in 1..Len(pool) |-> fallback_draft(pool[i])])
            /\ (Len(eligible) > 0 /\ last.n >= 1) => Len(last.result.ret[1]) > 0

\* C5: no two response rows are for the same question of the same session.
C5_OneResponsePerQuestion ==
    \A i, j \in 1..Len(quiz_responses) :
        (/\ quiz_responses[i].session_id = quiz_responses[j].session_id
         /\ quiz_responses[i].question_id = quiz_responses[j].question_id)
            => i = j

\* C6: a completed session is never changed again: its status, score and
\* average response time stay as they are in every later step.
C6_CompletedSessionIsFinal ==
    [][\A i \in 1..Len(quiz_sessions) :
           quiz_sessions[i].status = "completed"
               => quiz_sessions'[i] = quiz_sessions[i]]_vars

\* C7: the mastery table holds at most one row per (patient id, item type,
\* item id), also while two submit_quiz calls interleave.
C7_OneMasteryRowPerItem ==
    \A i, j \in 1..Len(mastery) : SameItem(mastery[i], mastery[j]) => i = j

\* the score the claim names, in hundredths
C8_ClaimedScore(s, correct, response_time_ms) ==
    IF ~correct THEN Max(0, s - 5)
    ELSE IF response_time_ms >= 3000 THEN Min(100, s + 10)
    ELSE Min(100, s + 15)

\* C8: from the prior score s of the item (0 without a record),
\* compute_mastery_update yields max(0, s - 0.05) when incorrect,
\* min(1, s + 0.10) when correct in 3000 ms or more, min(1, s + 0.15) when
\* correct in less; and every stored score is within [0, 1].
C8_ScoreUpdate ==
    /\ \A m \in 1..Len(mastery) :
           mastery[m].mastery_score >= 0 /\ mastery[m].mastery_score <= 100
    /\ \A correct \in BOOLEAN, response_time_ms \in ResponseTimeInputs :
           LET existing == _get_mastery_row(SchedPatient, SchedPayload.item_type,
                                            SchedPayload.item_id)
               s == IF existing = None THEN 0 ELSE existing[1].mastery_score
               update == compute_mastery_update(SchedPatient, SchedPayload, correct,
                                                response_time_ms)
           IN  update[1].mastery_score = C8_ClaimedScore(s, correct, response_time_ms)

\* the score was clamped at 1.0 by an update
C8_Witness ==
    \E m \in 1..Len(mastery) :
        mastery[m].mastery_score = 100 /\ mastery[m].consecutive_correct >= 7

\* C9: in every mastery record the two streak counters are non-negative and
\* not both positive.
C9_StreaksExclusive ==
    \A m \in 1..Len(mastery) :
        /\ mastery[m].consecutive_correct >= 0
        /\ mastery[m].consecutive_incorrect >= 0
        /\ ~(mastery[m].consecutive_correct > 0 /\ mastery[m].consecutive_incorrect > 0)

\* a correct answer came after an incorrect one that came after a correct one
C9_Witness ==
    \E m \in 1..Len(mastery) :
        /\ mastery[m].consecutive_correct = 1
        /\ mastery[m].mastery_score >= 20

\* the interval the claim names, for a score in hundredths
C10_ClaimedDays(score) ==
    CASE score >= 80 -> 14
      [] score >= 60 /\ score < 80 -> 7
      [] score >= 40 /\ score < 60 -> 4
      [] score >= 20 /\ score < 40 -> 2
      [] OTHER -> 1

\* C10: the next-due timestamp of a record is the time of its update plus the
\* interval of the score the update stored (14, 7, 4, 2 or 1 days), and a higher
\* score never has a shorter interval.
C10_NextDueFromNewScore ==
    /\ \A m \in 1..Len(mastery) :
           mastery[m].next_due_at =
               Some(mastery[m].last_seen_at[1] + C10_ClaimedDays(mastery[m].mastery_score))
    /\ \A a, b \in 0..100 : a <= b => _interval_days(a) <= _interval_days(b)

\* a record was scheduled 14 days ahead
C10_Witness ==
    \E m \in 1..Len(mastery) :
        /\ mastery[m].mastery_score >= 80
        /\ mastery[m].next_due_at = Some(mastery[m].last_seen_at[1] + 14)

\* a string trimmed and case-folded, as the claims normalise it
Normalised(s) == Lower(Strip(s))

\* C11: for a recall question evaluate_answer is true exactly when the
\* normalised submitted answer is the normalised canonical answer or the
\* normalised form of an entry of acceptable_answers.
C11_RecallNormalisesAlternates ==
    (last.called /\ "question_type" \in DOMAIN last /\ last.question_type = "recall") =>
        (last.result <=>
            \/ Normalised(Str(last.user_answer)) = Normalised(Str(last.correct_answer))
            \/ \E i \in 1..Len(last.acceptable_answers) :
                   Normalised(last.acceptable_answers[i])
                       = Normalised(Str(last.user_answer)))

\* C12: for a question that is not of type recall evaluate_answer is true
\* exactly when the normalised submitted answer is the normalised canonical
\* answer, whatever acceptable_answers holds.
C12_OtherTypesIgnoreAlternates ==
    (last.called /\ "question_type" \in DOMAIN last /\ last.question_type # "recall") =>
        (last.result <=>
            Normalised(Str(last.user_answer)) = Normalised(Str(last.correct_answer)))

\* a non-recall answer was judged wrong although it is, normalised, one of the
\* acceptable answers, and another was judged right through trimming and case
C12_Witness ==
    /\ last.called
    /\ "question_type" \in DOMAIN last
    /\ last.question_type = "mcq"
    /\ ~last.result
    /\ Len(last.acceptable_answers) = 1
    /\ last.acceptable_answers[1] = Str(last.user_answer)


\* the call returned a list of questions
ReturnedList == last.called /\ "gen" \in DOMAIN last /\ ~last.result.raised
                    /\ last.result.ret # None

\* the call took the fallback path
FallbackPath == ReturnedList /\ last.gen.kind \in {"unconfigured", "transport_error", "not_json"}

\* the (item_type, item_id) pair a question, a due entry or a catalog row names
QuestionRef(q) == <<q.item_type, q.item_id>>

ItemRef(item) == <<IF "label" \in DOMAIN item THEN "knowledge" ELSE "family", item.id>>

\* C13: generate_quiz_questions returns at most n questions (none when n is
\* not positive) for every n, catalog and due list, on the fallback path and
\* on the generator path.
C13_AtMostNQuestions ==
    ReturnedList => Len(last.result.ret[1]) <= Max(last.n, 0)

\* the items the generator request names: the family members, the filtered
\* knowledge items and the due entries
SentToGenerator ==
    {ItemRef(family_members[j]) : j \in 1..Len(family_members)}
    \cup {ItemRef(sensitive_filtered(knowledge_items, last.include_sensitive)[j]) :
              j \in 1..Len(sensitive_filtered(knowledge_items, last.include_sensitive))}
    \cup {QuestionRef(last.due[j]) : j \in 1..Len(last.due)}

\* every returned question names an item of the generator request
Grounded ==
    \A i \in 1..Len(last.result.ret[1]) :
        QuestionRef(last.result.ret[1][i]) \in SentToGenerator

\* C14: with include_sensitive false no returned question names a knowledge
\* item of sensitivity 2 or more, and no family member is left out for
\* sensitivity: with room for the whole catalog every family member is asked.
C14_NoSensitiveQuestion ==
    (ReturnedList /\ ~last.include_sensitive /\ Grounded) =>
        /\ \A i \in 1..Len(last.result.ret[1]) :
               \A j \in 1..Len(knowledge_items) :
                   (knowledge_items[j].sensitivity_level >= 2)
                       => QuestionRef(last.result.ret[1][i]) # ItemRef(knowledge_items[j])
        /\ (FallbackPath /\ last.n >= Len(knowledge_items) + Len(family_members)) =>
               \A j \in 1..Len(family_members) :
                   \E i \in 1..Len(last.result.ret[1]) :
                       QuestionRef(last.result.ret[1][i]) = ItemRef(family_members[j])


\* the items that may be asked: the filtered knowledge items, then the family
\* members, in catalog order
EligibleRefs ==
    LET eligible == sensitive_filtered(knowledge_items, last.include_sensitive)
                        \o family_members
    IN  [i \in 1..Len(eligible) |-> ItemRef(eligible[i])]

\* the members of refs that are in the set allowed, each at its first place
RECURSIVE FirstOccurrences(_, _)
FirstOccurrences(refs, allowed) ==
    IF Len(refs) = 0 THEN <<>>
    ELSE IF Head(refs) \in allowed
         THEN <<Head(refs)>> \o FirstOccurrences(Tail(refs), allowed \ {Head(refs)})
         ELSE FirstOccurrences(Tail(refs), allowed)

\* the due entries resolved to eligible items in due order
DueResolved ==
    FirstOccurrences([i \in 1..Len(last.due) |-> QuestionRef(last.due[i])],
                     {EligibleRefs[i] : i \in 1..Len(EligibleRefs)})

\* the due items, then the remaining eligible items in catalog order
ClaimedOrder ==
    DueResolved
        \o SelectSeq(EligibleRefs,
                     LAMBDA ref : \A i \in 1..Len(DueResolved) : DueResolved[i] # ref)

\* the first n elements of a sequence: none when n is not positive
FirstN(s, n) == SubSeq(s, 1, Min(Max(n, 0), Len(s)))

ChosenRefs == [i \in 1..Len(last.result.ret[1]) |-> QuestionRef(last.result.ret[1][i])]

\* C18: on the fallback path the chosen items are the first n of the due
\* entries resolved in due order followed by the remaining eligible knowledge
\* items and family members; no item is chosen twice, and an item outside the
\* due list is chosen only when every eligible due item is chosen.
C18_FallbackSelectionOrder ==
    FallbackPath =>
        /\ ChosenRefs = FirstN(ClaimedOrder, last.n)
        /\ \A i, j \in 1..Len(ChosenRefs) : ChosenRefs[i] = ChosenRefs[j] => i = j
        /\ (\E i \in 1..Len(ChosenRefs) :
                \A j \in 1..Len(DueResolved) : DueResolved[j] # ChosenRefs[i])
               => \A j \in 1..Len(DueResolved) :
                      \E i \in 1..Len(ChosenRefs) : ChosenRefs[i] = DueResolved[j]


\* the catalog rows of a patient, each with its item type
CatalogRefs(patient_id) ==
    {<<"family", list_family_members(patient_id)[i].id>> :
         i \in 1..Len(list_family_members(patient_id))}
    \cup {<<"knowledge", list_knowledge_items(patient_id)[i].id>> :
             i \in 1..Len(list_knowledge_items(patient_id))}

\* no mastery row is stored for the item
Unseen(patient_id, ref) ==
    _get_mastery_row(patient_id, ref[1], ref[2]) = None

\* a due entry that is a mastery row
FromMastery(entry) == "mastery_score" \in DOMAIN entry

\* C15: every knowledge item and family member of a patient that has no
\* mastery record is listed by due_items exactly once, and behind every
\* entry that comes from a due mastery record.
C15_UnseenItemsListedOnce ==
    \A p \in 1..Len(patients) :
        LET due == due_items(patients[p].id)
        IN  \A ref \in CatalogRefs(patients[p].id) :
                Unseen(patients[p].id, ref) =>
                    /\ Cardinality({i \in 1..Len(due) : QuestionRef(due[i]) = ref}) = 1
                    /\ \A i, j \in 1..Len(due) :
                           (QuestionRef(due[i]) = ref /\ FromMastery(due[j])) => j < i

\* a patient has a due mastery record and an item that was never answered
C15_Witness ==
    \E p \in 1..Len(patients) :
        LET due == due_items(patients[p].id)
        IN  /\ \E j \in 1..Len(due) : FromMastery(due[j])
            /\ \E ref \in CatalogRefs(patients[p].id) : Unseen(patients[p].id, ref)


Accepted(t) == req[t].pc = "returned" /\ req[t].status = 200

\* the response rows stored since the request began
StoredSince(t) ==
    SubSeq(quiz_responses, Len(req[t].before.quiz_responses) + 1, Len(quiz_responses))

CorrectSince(t) == Len(SelectSeq(StoredSince(t), LAMBDA row : row.correct))

\* C16: once submit_quiz has accepted a batch the session is completed and
\* its stored score is the returned score, which is the number of submissions
\* evaluated correct over the number of submissions: 0 for the empty batch
\* and 1 when every answer is correct.
C16_ScoreIsCorrectFraction ==
    \A t \in Threads :
        Accepted(t) =>
            LET session == get_session(req[t].session_id)[1]
                score == req[t].response[1].score
                total == req[t].response[1].total_questions
            IN  /\ session.status = "completed"
                /\ session.score = Some(score)
                /\ total = Len(StoredSince(t))
                /\ score.den > 0
                /\ total > 0 => score.num * total = CorrectSince(t) * score.den
                /\ total = 0 => score.num = 0
                /\ (total > 0 /\ CorrectSince(t) = total) => score.num = score.den

\* a batch of one correct and one wrong answer was accepted
C16_Witness ==
    \E t \in Threads :
        /\ Accepted(t)
        /\ Len(StoredSince(t)) = 2
        /\ CorrectSince(t) = 1


\* the patient and item a stored response was scored for
ResponseItem(row) ==
    LET question == lookup(quiz_questions, row.question_id)[1]
    IN  [patient_id |-> get_session(row.session_id)[1].patient_id,
         item_type |-> question.payload.item_type,
         item_id |-> question.payload.item_id]

\* the answers scored for the item of a mastery record, oldest first
History(m) == SelectSeq(quiz_responses, LAMBDA row : SameItem(ResponseItem(row), m))

\* how many answers at the end of a history have the given outcome
RECURSIVE Trailing(_, _)
Trailing(history, correct) ==
    IF Len(history) = 0 \/ history[Len(history)].correct # correct
    THEN 0
    ELSE 1 + Trailing(SubSeq(history, 1, Len(history) - 1), correct)

\* C19: between non-concurrent submissions every mastery record holds, as
\* consecutive_correct, the number of correct answers at the end of its item's
\* answer history and, as consecutive_incorrect, the number of incorrect ones.
C19_StreaksCountHistory ==
    Quiescent =>
        \A i \in 1..Len(mastery) :
            /\ mastery[i].consecutive_correct = Trailing(History(mastery[i]), TRUE)
            /\ mastery[i].consecutive_incorrect = Trailing(History(mastery[i]), FALSE)

\* one accepted batch answered the same question twice, both times the same way
C19_Witness ==
    /\ Accepted("t1")
    /\ \E i \in 1..Len(mastery) :
           LET history == History(mastery[i])
           IN  /\ Len(history) = 2
               /\ history = StoredSince("t1")
               /\ history[1].question_id = history[2].question_id
               /\ Trailing(history, TRUE) = 2


\* C20: a submit_quiz that was rejected with 404 or 400 completed no session:
\* every session has the status, score and average response time it had when
\* the request began.
C20_RejectedLeavesSessions ==
    \A t \in Threads :
        Rejected(t) =>
            /\ Len(quiz_sessions) >= Len(req[t].before.quiz_sessions)
            /\ \A i \in 1..Len(req[t].before.quiz_sessions) :
                   /\ quiz_sessions[i].id = req[t].before.quiz_sessions[i].id
                   /\ quiz_sessions[i].status = req[t].before.quiz_sessions[i].status
                   /\ quiz_sessions[i].score = req[t].before.quiz_sessions[i].score
                   /\ quiz_sessions[i].avg_response_time_ms
                          = req[t].before.quiz_sessions[i].avg_response_time_ms

\* a batch was rejected with 400 after an answer of it had been stored, and
\* its session is still active
C20_Witness ==
    /\ Rejected("t1")
    /\ req["t1"].status = 400
    /\ Len(quiz_responses) > Len(req["t1"].before.quiz_responses)
    /\ get_session(req["t1"].session_id)[1].status = "active"


InProgress(t) == req[t].pc \notin {"idle", "returned"}

\* the step in which thread t runs complete_session and returns
CompletesNow(t) == InProgress(t) /\ req'[t].pc = "returned" /\ req'[t].status = 200

\* the session of thread t is left completed with the pair of t's response
CompletionStored(t) ==
    \A i \in 1..Len(quiz_sessions') :
        (quiz_sessions'[i].id = req'[t].session_id) =>
            /\ quiz_sessions'[i].status = "completed"
            /\ quiz_sessions'[i].score = Some(req'[t].response[1].score)
            /\ quiz_sessions'[i].avg_response_time_ms
                   = Some(req'[t].response[1].avg_response_time_ms)

SessionsKept == \A i \in 1..Len(quiz_sessions) : quiz_sessions'[i] = quiz_sessions[i]

LastCompletionStep ==
    IF \E t \in Threads : CompletesNow(t)
    THEN \A t \in Threads : CompletesNow(t) => CompletionStored(t)
    ELSE SessionsKept

\* C17: when submit_quiz calls on one session interleave, every call that has
\* begun returns; the step in which a call runs complete_session leaves the
\* session completed with that call's score and average response time, and
\* no other step changes a stored session, so the session ends with the pair
\* of the call that completed it last.
C17_LastCompletionWins ==
    /\ \A t \in Threads : InProgress(t) ~> (req[t].pc = "returned")
    /\ [][LastCompletionStep]_vars

\* two calls on one session that both began before either had stored an
\* answer were both accepted, with different scores and different averages
C17_Witness ==
    /\ Accepted("t1")
    /\ Accepted("t2")
    /\ req["t1"].session_id = req["t2"].session_id
    /\ req["t1"].before.quiz_responses = <<>>
    /\ req["t2"].before.quiz_responses = <<>>
    /\ Len(quiz_responses) = 2
    /\ req["t1"].response[1].score # req["t2"].response[1].score
    /\ req["t1"].response[1].avg_response_time_ms
           # req["t2"].response[1].avg_response_time_ms
    /\ get_session(req["t1"].session_id)[1].status = "completed"

====
